---------------------------- MODULE Spec2Model ----------------------------
(***************************************************************************)
(* World-Heritage-Quiz-Master: the generation-and-accumulation pipeline.   *)
(*                                                                         *)
(*   src/unnamed/part_000   generateQuizBatch, the retrying client         *)
(*   src/geminiService.ts   isDuplicate (and the simple client)            *)
(*   src/App.tsx            handleGenerateLevel, handleAutoGenerate,       *)
(*                          handleStopAuto and the React state they use    *)
(*                                                                         *)
(* A step of the model is one run of JavaScript between two awaits: the    *)
(* event loop never interleaves anything inside such a run, and a click    *)
(* is a task of its own.                                                   *)
(***************************************************************************)
EXTENDS Integers, Sequences, FiniteSets, TLC

(***************************************************************************)
(* Bounds of the model.                                                    *)
(***************************************************************************)
\* the service answers a request with at most this many items
MaxBatchLen == 2
\* the number of generateQuizBatch calls of one Auto-Fill run that callsInRun
\* tells apart (it saturates there)
MaxCallsTracked == 3
\* the most items of one level in a bank of the play sessions
MaxSaved == 3
\* the most items of a bank that is exported, and the longest text exported
MaxRows == 1
MaxTextLen == 160
\* a localStorage that every bank of the model fits in
RoomyQuota == 100
\* a localStorage that is full before the scenario's target is reached
TightQuota == 12
\* a localStorage that has no room for any item
FullQuota == 0

(***************************************************************************)
(* Program constants.  The sizes of the question bank are scaled down (the *)
(* source has a cap of 2000 and targets of 300, 600, 1000 and 1000); the   *)
(* order cap > every target is kept.  So is the length of a review session *)
(* (10 in the source).  The other constants have the source's values.      *)
(***************************************************************************)
DEFAULT_SESSION_COUNT == 2
MAX_QUESTIONS_PER_LEVEL == 2
LEVEL_3_TARGET == 1
LEVEL_2_TARGET == 1
LEVEL_PRE_1_TARGET == 1
LEVEL_1_TARGET == 1
DEFAULT_TARGET == 1
BATCH_CAP == 10
maxRetries == 5
RATE_LIMIT_WAIT_SEC == 60
OVERLOAD_WAIT_MS == 10000
OTHER_ERROR_WAIT_MS == 5000
REST_SEC == 5
TICK_MS == 1000
\* the target of the scenario "bank empty, target=15, batch cap=10"
ScenarioTarget == 15

QuizLevel == {"L3", "L2", "Lpre1", "L1"}

LEVEL_TARGETS ==
  [l \in QuizLevel |->
     CASE l = "L3" -> LEVEL_3_TARGET
       [] l = "L2" -> LEVEL_2_TARGET
       [] l = "Lpre1" -> LEVEL_PRE_1_TARGET
       [] OTHER -> LEVEL_1_TARGET]

\* LEVEL_TARGETS[level] || 300
TargetOf(level) ==
  IF level \in DOMAIN LEVEL_TARGETS /\ LEVEL_TARGETS[level] # 0
    THEN LEVEL_TARGETS[level]
    ELSE DEFAULT_TARGET

MinOf(a, b) == IF a <= b THEN a ELSE b

(***************************************************************************)
(* Question texts are strings: sequences of characters.  String.trim       *)
(* removes the white space at both ends.                                   *)
(***************************************************************************)
IsSpace(c) == c \in {" ", "\n", "\r", "\t"}

RECURSIVE TrimStart(_)
TrimStart(s) ==
  IF s # <<>> /\ IsSpace(Head(s)) THEN TrimStart(Tail(s)) ELSE s

RECURSIVE TrimEnd(_)
TrimEnd(s) ==
  IF s # <<>> /\ IsSpace(s[Len(s)]) THEN TrimEnd(SubSeq(s, 1, Len(s) - 1)) ELSE s

Trim(s) == TrimEnd(TrimStart(s))

\* a QuizItem, by the fields the pipeline reads
Item(level, question) == [level |-> level, question |-> question]

isDuplicate(newQuestion, existingItems) ==
  LET normalizedNew == Trim(newQuestion)
  IN  \E i \in 1..Len(existingItems) :
        Trim(existingItems[i].question) = normalizedNew

\* array.filter(i => i.level === level) and its complement
LevelItems(db, level) == SelectSeq(db, LAMBDA i : i.level = level)
OtherItems(db, level) == SelectSeq(db, LAMBDA i : i.level # level)
CountOf(db, level) == Len(LevelItems(db, level))

\* array.slice(n): the items from index n (0-based) on
Slice(s, n) == SubSeq(s, n + 1, Len(s))

(***************************************************************************)
(* The updater handleGenerateLevel hands to setDbItems.                    *)
(***************************************************************************)
ManualMerge(prevDb, level, newItems) ==
  LET uniqueNewItems == SelectSeq(newItems, LAMBDA n : ~isDuplicate(n.question, prevDb))
      levelItems == LevelItems(prevDb, level)
      otherItems == OtherItems(prevDb, level)
      merged == levelItems \o uniqueNewItems
      mergedLevelItems ==
        IF Len(merged) > MAX_QUESTIONS_PER_LEVEL
          THEN Slice(merged, Len(merged) - MAX_QUESTIONS_PER_LEVEL)
          ELSE merged
  IN  otherItems \o mergedLevelItems

(***************************************************************************)
(* The merge of one Auto-Fill batch into the loop's local copy.            *)
(***************************************************************************)
AutoUniqueUnfiltered(localDb, newItems) == newItems

\* newItems.filter(newItem => !isDuplicate(newItem.question, localDb))
AutoUnique(localDb, newItems) ==
  SelectSeq(newItems, LAMBDA n : ~isDuplicate(n.question, localDb))

AutoMergeNothing(localDb, newItems) == localDb

\* localDb = [...localDb, ...uniqueItems]
AutoMerge(localDb, newItems) == localDb \o AutoUnique(localDb, newItems)

(***************************************************************************)
(* Errors.  The code reads an error through message.includes(<marker>),    *)
(* the pattern /retry in ([\d\.]+)s/ and the numbers status and code, so   *)
(* an error is the set of markers its message contains, the numeral of     *)
(* its "retry in <numeral>s" hint (NoHint when it has none), status, code. *)
(***************************************************************************)
NoHint == <<>>

Err(message, hint, status, code) ==
  [message |-> message, hint |-> hint, status |-> status, code |-> code]

\* lastError = null
NoError == Err({"null"}, NoHint, 0, 0)

\* message.includes(marker): a hint "retry in 3.5s" contains "retry"
Includes(e, marker) ==
  marker \in e.message \/ (marker = "retry" /\ e.hint # NoHint)

\* the errors generateQuizBatch throws itself
ENoContent == Err({"No content generated."}, NoHint, 0, 0)
ENotJSON == Err({"JSON"}, NoHint, 0, 0)
ENotArray == Err({"expected an array"}, NoHint, 0, 0)

\* errors of the generation service
E429Hint == Err({"429", "quota"}, <<"3", ".", "5">>, 429, 429)
E429 == Err({"429"}, NoHint, 0, 0)
E503 == Err({"503", "overloaded"}, NoHint, 503, 503)
EStatus503 == Err({"UNAVAILABLE"}, NoHint, 503, 0)
EBadHint == Err({"quota"}, <<".">>, 0, 0)
ESafety == Err({"safety"}, NoHint, 0, 0)

ServiceErrors == {E429Hint, E429, E503, EStatus503, EBadHint, ESafety}

(***************************************************************************)
(* parseFloat of the numeral the pattern captured ([\d\.]+), in            *)
(* milliseconds: the longest prefix digits [. digits]; NaN when that       *)
(* prefix holds no digit.                                                  *)
(***************************************************************************)
NaN == -1
Digits == <<"0", "1", "2", "3", "4", "5", "6", "7", "8", "9">>
IsDigit(c) == \E d \in 1..10 : Digits[d] = c
DigitVal(c) == (CHOOSE d \in 1..10 : Digits[d] = c) - 1

RECURSIVE DigitRun(_)
\* the leading digits of s
DigitRun(s) ==
  IF s # <<>> /\ IsDigit(Head(s)) THEN <<Head(s)>> \o DigitRun(Tail(s)) ELSE <<>>

RECURSIVE IntVal(_)
IntVal(ds) ==
  IF ds = <<>> THEN 0 ELSE IntVal(SubSeq(ds, 1, Len(ds) - 1)) * 10 + DigitVal(ds[Len(ds)])

\* the first three decimals as thousandths
MilliOf(fs) ==
  LET d(k) == IF k <= Len(fs) THEN DigitVal(fs[k]) ELSE 0
  IN  d(1) * 100 + d(2) * 10 + d(3)

ParseFloatMs(numeral) ==
  LET ip == DigitRun(numeral)
      rest == SubSeq(numeral, Len(ip) + 1, Len(numeral))
      fp == IF rest # <<>> /\ Head(rest) = "." THEN DigitRun(Tail(rest)) ELSE <<>>
  IN  IF ip = <<>> /\ fp = <<>> THEN NaN ELSE IntVal(ip) * 1000 + MilliOf(fp)

RECURSIVE Pow2(_)
Pow2(n) == IF n = 0 THEN 1 ELSE 2 * Pow2(n - 1)

\* Math.random() * 1000, a value of [0, 1000)
Jitters == {0, 999}

(***************************************************************************)
(* generateQuizBatch (the retrying client).                                *)
(***************************************************************************)
BackoffNoHint(attempt, lastError, jitter) == Pow2(attempt) * 1000 + jitter

\* the wait before retry `attempt`
Backoff(attempt, lastError, jitter) ==
  LET waitTime == Pow2(attempt) * 1000 + jitter
  IN  IF lastError # NoError /\ lastError.hint # NoHint
        THEN LET serverWaitSeconds == ParseFloatMs(lastError.hint)
             IN  IF serverWaitSeconds = NaN THEN NaN ELSE serverWaitSeconds + 1000
        ELSE waitTime

isRetryableAlways(error) == TRUE

isRetryable(error) ==
  \/ Includes(error, "503")
  \/ Includes(error, "overloaded")
  \/ Includes(error, "429")
  \/ Includes(error, "quota")
  \/ error.status = 503
  \/ error.code = 503
  \/ error.status = 429
  \/ error.code = 429

\* what the service can answer to one generateContent request
Response(kind, items, error) == [kind |-> kind, items |-> items, error |-> error]

\* the error a response makes the try block throw (NoError: none)
ThrownBy(resp) ==
  CASE resp.kind = "error" -> resp.error
    [] resp.kind = "empty" -> ENoContent
    [] resp.kind = "notJSON" -> ENotJSON
    [] resp.kind = "notArray" -> ENotArray
    [] OTHER -> NoError

\* the state of one generateQuizBatch call
NoCall ==
  [phase |-> "none", attempt |-> 0, lastError |-> NoError, waitTime |-> 0,
   sent |-> 0, level |-> "L3", count |-> 0]

\* the call starts: attempt 0 sends its request at once
ClientCall(level, count) ==
  [phase |-> "request", attempt |-> 0, lastError |-> NoError, waitTime |-> 0,
   sent |-> 1, level |-> level, count |-> count]

RetryBudgetOff(attempt) == attempt < maxRetries + 1

RetryBudget(attempt) == attempt < maxRetries

\* the catch block: does the loop go on to another attempt?
Retries(c, error) == isRetryable(error) /\ RetryBudget(c.attempt)

\* the failed attempt leads to another one: the client sleeps before it
ClientRetry(c, error, jitter) ==
  [c EXCEPT !.phase = "sleep", !.attempt = c.attempt + 1, !.lastError = error,
            !.waitTime = Backoff(c.attempt + 1, error, jitter)]

\* what the call throws when its attempt failed with error and is the last
Throws(c, error) == error

\* the call is over
Settle(c, error) == [c EXCEPT !.phase = "none", !.lastError = error]

\* the sleep is over: the request of this attempt is sent
ClientResend(c) == [c EXCEPT !.phase = "request", !.sent = c.sent + 1]

(***************************************************************************)
(* The generation service, which is outside the program.  service says     *)
(* how it behaves:                                                         *)
(*   "reliable"  every request is answered by a batch: any sequence of at  *)
(*               most MaxBatchLen items over ServiceItems;                 *)
(*   "faulty"    a request is answered by a batch of FewBatches, by a text *)
(*               the client cannot use, or by an error;                    *)
(*   "steady"    every request is answered by a batch of FewBatches;       *)
(*   "mock"      the test double that always returns exactly the requested *)
(*               number of items, of the requested level, with new and     *)
(*               pairwise distinct questions.                              *)
(***************************************************************************)
QuestionTexts == {<<"a">>, <<" ", "a">>, <<"b">>, <<"c">>}
ItemLevels == {"L3", "L2"}
\* the items the service writes: it labels every text L3, and one also L2
ServiceItems ==
  {Item("L3", q) : q \in QuestionTexts} \cup {Item("L2", <<"a">>)}

Batches == UNION {[1..n -> ServiceItems] : n \in 0..MaxBatchLen}

FewBatches ==
  {<<>>, <<Item("L3", <<"a">>)>>, <<Item("L2", <<"a">>), Item("L3", <<"b">>)>>}

\* the question text of the n-th item the mock writes
MockText(n) == <<"q", Digits[(n \div 10) + 1], Digits[(n % 10) + 1]>>

MockBatch(level, count, db) ==
  [k \in 1..count |-> Item(level, MockText(Len(db) + k))]

Unusable == {Response(k, <<>>, NoError) : k \in {"empty", "notJSON", "notArray"}}

(***************************************************************************)
(* The state.                                                              *)
(***************************************************************************)
VARIABLES
  dbItems,        \* the question bank (React state)
  stored,         \* localStorage 'wh_quiz_data'
  apiKey,         \* the credential, "" when missing
  isGenerating,   \* a generation is in progress
  loadingLevel,   \* its level, "null" when none
  genCount,       \* the size of a manual batch
  stopAutoRef,    \* the cancellation flag
  autoProgress,   \* the progress snapshot, NoProgress when null
  session,        \* the play session
  view,           \* the screen shown
  manual,         \* the activation of handleGenerateLevel
  auto,           \* the activation of handleAutoGenerate
  service,        \* how the generation service behaves
  outstanding,    \* generateQuizBatch calls started and not yet settled
  alert,          \* the alert() on the screen, "none" when there is none
  quota,          \* the number of items localStorage has room for
  reader,         \* the FileReader of an import that is under way
  download        \* the text of the last CSV file exported, <<>> when none

vars ==
  <<dbItems, stored, apiKey, isGenerating, loadingLevel, genCount, stopAutoRef,
    autoProgress, session, view, manual, auto, service, outstanding, alert,
    quota, reader, download>>

NoOption == -1
NoProgress ==
  [level |-> "null", current |-> 0, target |-> 0, status |-> "null", isStopping |-> FALSE]
Progress(level, current, target, status, isStopping) ==
  [level |-> level, current |-> current, target |-> target, status |-> status,
   isStopping |-> isStopping]
\* prev?.isStopping || false
PrevStopping == autoProgress # NoProgress /\ autoProgress.isStopping

\* sessionItems, sessionType, score, currentQIndex, selectedOption, showResult
\* and isConfirmingExit; answers and shuffled are history: the options
\* chosen for the questions of the session answered so far, in their order,
\* and what shuffleArray returned to the review that made the session
NoSession ==
  [items |-> <<>>, type |-> "new", score |-> 0, currentQIndex |-> 0,
   selectedOption |-> NoOption, showResult |-> FALSE,
   isConfirmingExit |-> FALSE, answers |-> <<>>, shuffled |-> <<>>]
\* the start of a session leaves isConfirmingExit as it is
NewSessionOfUnique(items, type) ==
  [NoSession EXCEPT
     !.items = SelectSeq(items, LAMBDA n : ~isDuplicate(n.question, dbItems)),
     !.type = type,
     !.isConfirmingExit = session.isConfirmingExit]
NewSession(items, type) ==
  [NoSession EXCEPT !.items = items, !.type = type,
                    !.isConfirmingExit = session.isConfirmingExit]

\* An activation holds, beside its locals, what the service last did to it:
\* lastFailure is the error of its latest attempt (NoError: it succeeded),
\* thrown the error its call threw (NoError: none).  Of the manual handler,
\* returned keeps the batch its latest successful call returned (newItems).
IdleManual ==
  [pc |-> "idle", level |-> "L3", client |-> NoCall, lastFailure |-> NoError,
   thrown |-> NoError, returned |-> <<>>]
\* sleepMs is the length of the sleep the loop awaits (0: none), callsInRun
\* counts the generateQuizBatch calls of the run (it saturates at
\* MaxCallsTracked), startCount is the count the run started with.  Since
\* the latest batch call ended, errorPause is the pause its catch block chose
\* ("none": the call returned) and sleptMs the time the loop has slept;
\* newItems is the batch the call returned and uniqueItems what the filter
\* kept of it (<<>> for a call that threw or was dropped after a stop); both
\* are forgotten with the first second of the rest.
IdleAuto ==
  [pc |-> "idle", level |-> "L3", target |-> 0, localDb |-> <<>>, currentCount |-> 0,
   i |-> 0, sleepMs |-> 0, client |-> NoCall, lastFailure |-> NoError,
   thrown |-> NoError, callsInRun |-> 0, startCount |-> 0,
   errorPause |-> "none", sleptMs |-> 0, newItems |-> <<>>, uniqueItems |-> <<>>]

\* no file is being read; while one is, text is the file's text (<<>> for a
\* file the model gives by its rows), parsed is what parseCSV will make of it
\* and dbItems the bank of the render that started the read
NoReader == [pc |-> "idle", text |-> <<>>, parsed |-> <<>>, dbItems |-> <<>>]

Responses(c, db) ==
  CASE service = "mock" -> {Response("items", MockBatch(c.level, c.count, db), NoError)}
    [] service = "faulty" ->
         {Response("items", b, NoError) : b \in FewBatches}
           \cup Unusable
           \cup {Response("error", <<>>, e) : e \in ServiceErrors}
    [] service = "steady" -> {Response("items", b, NoError) : b \in FewBatches}
    [] OTHER -> {Response("items", b, NoError) : b \in Batches}

PersistSkipped(db) == stored' = stored

\* try { localStorage.setItem('wh_quiz_data', JSON.stringify(db)) } catch ...:
\* the value is written, or setItem throws because it does not fit
Persist(db) == stored' = IF Len(db) <= quota THEN db ELSE stored

InitWith(mode, db, room) ==
  /\ dbItems = db
  /\ stored = db
  /\ quota = room
  /\ reader = NoReader
  /\ download = <<>>
  /\ apiKey \in {"", "key"}
  /\ isGenerating = FALSE
  /\ loadingLevel = "null"
  /\ genCount = 10
  /\ stopAutoRef = FALSE
  /\ autoProgress = NoProgress
  /\ session = NoSession
  /\ view = "home"
  /\ manual = IdleManual
  /\ auto = IdleAuto
  /\ service = mode
  /\ outstanding = 0
  /\ alert = "none"

(***************************************************************************)
(* Shared by both handlers.                                                *)
(***************************************************************************)
CanGenerateUnguarded == apiKey # ""

\* if (isGenerating || !checkApiKey()) return;
CanGenerate == ~isGenerating /\ apiKey # ""

HandleErrorSilent(e) == "none"

\* the message handleError shows
HandleErrorKind(e) ==
  CASE Includes(e, "503") \/ Includes(e, "overloaded") \/ Includes(e, "UNAVAILABLE") -> "overloaded"
    [] Includes(e, "429") \/ Includes(e, "quota") -> "rate limit"
    [] Includes(e, "JSON") -> "json"
    [] Includes(e, "API Key") -> "api key"
    [] OTHER -> "unknown"

\* alert() blocks the page: no handler and no timer runs until it is closed
Unblocked == alert = "none"

FinallySkipped ==
  /\ isGenerating' = isGenerating
  /\ loadingLevel' = loadingLevel

\* finally { setIsGenerating(false); setLoadingLevel(null); ... }
Finally ==
  /\ isGenerating' = FALSE
  /\ loadingLevel' = "null"

\* the trigger returns at once: a generation is in progress, or the key is
\* missing and checkApiKey offers the settings screen
TriggerRejected ==
  /\ Unblocked
  /\ view = "home"
  /\ ~CanGenerate
  /\ view' \in (IF ~isGenerating /\ apiKey = "" THEN {view, "settings"} ELSE {view})
  /\ UNCHANGED <<dbItems, stored, apiKey, isGenerating, loadingLevel, genCount,
                 stopAutoRef, autoProgress, session, manual, auto, service, quota, download, reader,
                 outstanding, alert>>

handleSaveApiKey ==
  /\ Unblocked
  /\ view = "settings"
  /\ apiKey' = "key"
  /\ view' = "home"
  /\ UNCHANGED <<dbItems, stored, isGenerating, loadingLevel, genCount, stopAutoRef,
                 autoProgress, session, manual, auto, service, quota, download, reader, outstanding, alert>>

\* the header's home button
GoHome ==
  /\ Unblocked
  /\ view # "home"
  /\ view' = "home"
  /\ UNCHANGED <<dbItems, stored, apiKey, isGenerating, loadingLevel, genCount,
                 stopAutoRef, autoProgress, session, manual, auto, service, quota, download, reader,
                 outstanding, alert>>

(***************************************************************************)
(* handleGenerateLevel (Mode A: one batch).                                *)
(***************************************************************************)
GenerateLevelStart(level) ==
  /\ Unblocked
  /\ view = "home"
  /\ CanGenerate
  /\ isGenerating' = TRUE
  /\ loadingLevel' = level
  /\ manual' = [IdleManual EXCEPT !.pc = "await", !.level = level,
                                  !.client = ClientCall(level, genCount),
                                  !.returned = manual.returned]
  /\ session' = [session EXCEPT !.isConfirmingExit = FALSE]
  /\ outstanding' = outstanding + 1
  /\ UNCHANGED <<dbItems, stored, apiKey, genCount, stopAutoRef, autoProgress,
                 view, auto, service, quota, download, reader, alert>>

\* an attempt fails and the client goes on to the next one
GenerateLevelRetry ==
  /\ manual.pc = "await"
  /\ manual.client.phase = "request"
  /\ \E resp \in Responses(manual.client, dbItems), jitter \in Jitters :
       LET e == ThrownBy(resp)
       IN  /\ e # NoError
           /\ Retries(manual.client, e)
           /\ manual' = [manual EXCEPT !.client = ClientRetry(manual.client, e, jitter),
                                       !.lastFailure = e]
  /\ UNCHANGED <<dbItems, stored, apiKey, isGenerating, loadingLevel, genCount,
                 stopAutoRef, autoProgress, session, view, auto, service, quota, download, reader, outstanding,
                 alert>>

\* the client's sleep is over
GenerateLevelResend ==
  /\ manual.pc = "await"
  /\ manual.client.phase = "sleep"
  /\ manual' = [manual EXCEPT !.client = ClientResend(manual.client)]
  /\ UNCHANGED <<dbItems, stored, apiKey, isGenerating, loadingLevel, genCount,
                 stopAutoRef, autoProgress, session, view, auto, service, quota, download, reader, outstanding,
                 alert>>

\* the call throws: catch, where handleError shows its alert
GenerateLevelFail ==
  /\ manual.pc = "await"
  /\ manual.client.phase = "request"
  /\ \E resp \in Responses(manual.client, dbItems) :
       LET e == ThrownBy(resp)
       IN  /\ e # NoError
           /\ ~Retries(manual.client, e)
           /\ alert' = HandleErrorKind(e)
           /\ manual' = [manual EXCEPT !.pc = "alert", !.client = Settle(manual.client, e),
                                       !.lastFailure = e, !.thrown = Throws(manual.client, e)]
  /\ outstanding' = outstanding - 1
  /\ UNCHANGED <<dbItems, stored, apiKey, isGenerating, loadingLevel, genCount,
                 stopAutoRef, autoProgress, session, view, auto, service, quota, download, reader>>

\* the alert is closed: finally
GenerateLevelFailed ==
  /\ manual.pc = "alert"
  /\ alert' = "none"
  /\ manual' = [IdleManual EXCEPT !.returned = manual.returned]
  /\ Finally
  /\ UNCHANGED <<dbItems, stored, apiKey, genCount, stopAutoRef, autoProgress, session,
                 view, auto, service, quota, download, reader, outstanding>>

\* the call returns: the bank is updated and saved, the session starts
GenerateLevelDone ==
  /\ manual.pc = "await"
  /\ manual.client.phase = "request"
  /\ \E resp \in Responses(manual.client, dbItems) :
       /\ ThrownBy(resp) = NoError
       /\ dbItems' = ManualMerge(dbItems, manual.level, resp.items)
       /\ session' = NewSession(resp.items, "new")
       /\ manual' = [IdleManual EXCEPT !.returned = resp.items]
  /\ Persist(dbItems')
  /\ view' = "play"
  /\ outstanding' = outstanding - 1
  /\ Finally
  /\ UNCHANGED <<apiKey, genCount, stopAutoRef, autoProgress, auto, service, quota, download, reader, alert>>

(***************************************************************************)
(* handleAutoGenerate (Mode B: the Auto-Fill loop).  auto.pc is where the  *)
(* activation waits:                                                       *)
(*   "call"          await generateQuizBatch(...)                          *)
(*   "rateWait"      await sleep(1000) of the 60 s countdown               *)
(*   "overloadWait"  await sleep(10000)                                    *)
(*   "otherWait"     await sleep(5000)                                     *)
(*   "rest"          await sleep(1000) of the rest between batches         *)
(*   "alert"         the alert after the loop is on the screen             *)
(*   "reached"       the alert "already at the target" is on the screen    *)
(* The operators below are the stretches of the handler that several       *)
(* steps run through; a is the activation with its locals up to date, o    *)
(* the number of calls outstanding and p the progress snapshot when the    *)
(* stretch begins.                                                         *)
(***************************************************************************)
BatchSizeUncapped(a) == a.target - a.currentCount

\* Math.min(10, remaining)
BatchSize(a) == MinOf(BATCH_CAP, a.target - a.currentCount)

LoopContinuesIgnoringStop(a) == a.currentCount < a.target

\* while (currentCount < target && !stopAutoRef.current)
LoopContinues(a) == a.currentCount < a.target /\ ~stopAutoRef

TerminalStatusAlwaysReached(a) == "target reached"

\* the alert after the loop
TerminalStatus(a) ==
  IF a.currentCount >= a.target THEN "target reached" ELSE "stopped by user"

\* the loop is left: its alert is shown
EndRun(a, o, p) ==
  /\ alert' = TerminalStatus(a)
  /\ auto' = [a EXCEPT !.pc = "alert", !.i = 0, !.sleepMs = 0, !.client = NoCall,
                       !.errorPause = "none", !.sleptMs = 0]
  /\ outstanding' = o
  /\ autoProgress' = p
  /\ UNCHANGED stopAutoRef

\* the head of the while loop, up to await generateQuizBatch
LoopHead(a, o, p) ==
  IF LoopContinues(a) /\ BatchSize(a) > 0
    THEN /\ auto' = [a EXCEPT !.pc = "call", !.i = 0, !.sleepMs = 0,
                              !.client = ClientCall(a.level, BatchSize(a)),
                              !.lastFailure = NoError, !.thrown = NoError,
                              !.errorPause = "none", !.sleptMs = 0,
                              !.newItems = <<>>, !.uniqueItems = <<>>,
                              !.callsInRun = MinOf(a.callsInRun + 1, MaxCallsTracked)]
         /\ autoProgress' =
              Progress(a.level, a.currentCount, a.target, "writing", PrevStopping)
         /\ outstanding' = o + 1
         /\ UNCHANGED <<stopAutoRef, alert>>
    ELSE EndRun(a, o, p)

\* "Rest between batches if not finished", then the loop's head
AfterBatch(a, o, p) ==
  IF a.currentCount < a.target /\ ~stopAutoRef
    THEN /\ auto' = [a EXCEPT !.pc = "rest", !.i = REST_SEC, !.sleepMs = TICK_MS,
                              !.client = NoCall,
                              !.lastFailure = NoError, !.thrown = NoError]
         /\ autoProgress' =
              Progress(a.level, a.currentCount, a.target, "rest", PrevStopping)
         /\ outstanding' = o
         /\ UNCHANGED <<stopAutoRef, alert>>
    ELSE LoopHead(a, o, p)

\* the snapshot after a batch: "done, on to the next batch"
Saved(a) == Progress(a.level, a.currentCount, a.target, "done", PrevStopping)

PauseSleepOneTick(kind) == TICK_MS

\* the sleep each pause awaits
PauseSleep(kind) ==
  CASE kind = "rateWait" -> TICK_MS
    [] kind = "overloadWait" -> OVERLOAD_WAIT_MS
    [] kind = "otherWait" -> OTHER_ERROR_WAIT_MS
    [] OTHER -> 0

PauseKindRethrows(e) ==
  CASE Includes(e, "429") \/ Includes(e, "quota") \/ Includes(e, "retry") -> "rateWait"
    [] Includes(e, "503") \/ Includes(e, "overloaded") -> "overloadWait"
    [] OTHER -> "alert"

\* the pause the catch block chooses
PauseKind(e) ==
  CASE Includes(e, "429") \/ Includes(e, "quota") \/ Includes(e, "retry") -> "rateWait"
    [] Includes(e, "503") \/ Includes(e, "overloaded") -> "overloadWait"
    [] OTHER -> "otherWait"

\* the trigger is accepted and window.confirm is answered with OK (a
\* cancelled confirm returns without changing anything): the handler runs
\* up to its first await
AutoGenerateStart(level, target) ==
  LET currentCount == CountOf(dbItems, level)
      a == [IdleAuto EXCEPT !.level = level, !.target = target, !.localDb = dbItems,
                            !.currentCount = currentCount, !.startCount = currentCount]
  IN  /\ Unblocked
      /\ view = "home"
      /\ CanGenerate
      /\ currentCount < target
      /\ isGenerating' = TRUE
      /\ loadingLevel' = level
      /\ stopAutoRef' = FALSE
      /\ auto' = [a EXCEPT !.pc = "call", !.client = ClientCall(level, BatchSize(a)),
                           !.callsInRun = 1]
      /\ autoProgress' = Progress(level, currentCount, target, "writing", FALSE)
      /\ outstanding' = outstanding + 1
      /\ UNCHANGED <<dbItems, stored, apiKey, genCount, session, view, manual, service, quota, download, reader,
                     alert>>

\* the level already holds its target: an alert and nothing else
AutoGenerateAlreadyReached(level, target) ==
  /\ Unblocked
  /\ view = "home"
  /\ CanGenerate
  /\ CountOf(dbItems, level) >= target
  /\ alert' = "already reached"
  /\ auto' = [IdleAuto EXCEPT !.pc = "reached"]
  /\ UNCHANGED <<dbItems, stored, apiKey, isGenerating, loadingLevel, genCount,
                 stopAutoRef, autoProgress, session, view, manual, service, quota, download, reader,
                 outstanding>>

AutoGenerateReturn ==
  /\ auto.pc = "reached"
  /\ alert' = "none"
  /\ auto' = IdleAuto
  /\ UNCHANGED <<dbItems, stored, apiKey, isGenerating, loadingLevel, genCount,
                 stopAutoRef, autoProgress, session, view, manual, service, quota, download, reader,
                 outstanding>>

\* an attempt fails and the client goes on to the next one
AutoGenerateRetry ==
  /\ auto.pc = "call"
  /\ auto.client.phase = "request"
  /\ \E resp \in Responses(auto.client, auto.localDb), jitter \in Jitters :
       LET e == ThrownBy(resp)
       IN  /\ e # NoError
           /\ Retries(auto.client, e)
           /\ auto' = [auto EXCEPT !.client = ClientRetry(auto.client, e, jitter),
                                   !.lastFailure = e]
  /\ UNCHANGED <<dbItems, stored, apiKey, isGenerating, loadingLevel, genCount,
                 stopAutoRef, autoProgress, session, view, manual, service, quota, download, reader, outstanding,
                 alert>>

\* the client's sleep is over
AutoGenerateResend ==
  /\ auto.pc = "call"
  /\ auto.client.phase = "sleep"
  /\ auto' = [auto EXCEPT !.client = ClientResend(auto.client)]
  /\ UNCHANGED <<dbItems, stored, apiKey, isGenerating, loadingLevel, genCount,
                 stopAutoRef, autoProgress, session, view, manual, service, quota, download, reader, outstanding,
                 alert>>

\* the call throws: the catch block of the loop
AutoGenerateFail ==
  /\ auto.pc = "call"
  /\ auto.client.phase = "request"
  /\ \E resp \in Responses(auto.client, auto.localDb) :
       LET e == ThrownBy(resp)
           err == Throws(auto.client, e)
           a == [auto EXCEPT !.client = Settle(auto.client, e), !.lastFailure = e,
                             !.thrown = err]
       IN  /\ e # NoError
           /\ ~Retries(auto.client, e)
           /\ IF stopAutoRef
                THEN EndRun(a, outstanding - 1, autoProgress)
                ELSE /\ auto' = [a EXCEPT !.pc = PauseKind(err),
                                          !.i = IF PauseKind(err) = "rateWait"
                                                  THEN RATE_LIMIT_WAIT_SEC ELSE 0,
                                          !.sleepMs = PauseSleep(PauseKind(err)),
                                          !.errorPause = PauseKind(err),
                                          !.sleptMs = 0]
                     /\ autoProgress' =
                          IF PauseKind(err) = "otherWait"
                            THEN autoProgress
                            ELSE Progress(a.level, a.currentCount, a.target,
                                          PauseKind(err), PrevStopping)
                     /\ outstanding' = outstanding - 1
                     /\ UNCHANGED <<stopAutoRef, alert>>
  /\ UNCHANGED <<dbItems, stored, apiKey, isGenerating, loadingLevel, genCount, session,
                 view, manual, service, quota, download, reader>>

BreakAfterCallNever == FALSE

\* if (stopAutoRef.current) break, after the call has returned
BreakAfterCall == stopAutoRef

\* the call returns: the batch is merged and saved, or dropped after a stop
AutoGenerateDone ==
  /\ auto.pc = "call"
  /\ auto.client.phase = "request"
  /\ \E resp \in Responses(auto.client, auto.localDb) :
       LET uniqueItems == AutoUnique(auto.localDb, resp.items)
           localDb == AutoMerge(auto.localDb, resp.items)
           kept == [auto EXCEPT !.client = NoCall, !.newItems = resp.items]
           a == [kept EXCEPT !.localDb = localDb, !.uniqueItems = uniqueItems,
                             !.currentCount = CountOf(localDb, auto.level)]
       IN  /\ ThrownBy(resp) = NoError
           /\ IF BreakAfterCall
                THEN /\ EndRun(kept, outstanding - 1, autoProgress)
                     /\ UNCHANGED <<dbItems, stored>>
                ELSE IF Len(uniqueItems) > 0
                       THEN /\ dbItems' = localDb
                            /\ Persist(localDb)
                            /\ AfterBatch(a, outstanding - 1, Saved(a))
                       ELSE /\ UNCHANGED <<dbItems, stored>>
                            /\ AfterBatch(kept, outstanding - 1, Saved(kept))
  /\ UNCHANGED <<apiKey, isGenerating, loadingLevel, genCount, session, view, manual,
                 service, quota, download, reader>>

\* the sleep the loop awaited is over
Slept(a) == [a EXCEPT !.sleptMs = @ + a.sleepMs]

\* a second of the rate-limit countdown is over
RateLimitTick ==
  /\ auto.pc = "rateWait"
  /\ IF auto.i - 1 > 0 /\ ~stopAutoRef
       THEN /\ auto' = [auto EXCEPT !.i = auto.i - 1, !.sleptMs = @ + auto.sleepMs]
            /\ autoProgress' = Progress(auto.level, auto.currentCount, auto.target,
                                        "rateWait", PrevStopping)
            /\ UNCHANGED <<stopAutoRef, alert, outstanding>>
       ELSE AfterBatch(Slept(auto), outstanding, autoProgress)
  /\ UNCHANGED <<dbItems, stored, apiKey, isGenerating, loadingLevel, genCount, session,
                 view, manual, service, quota, download, reader>>

\* sleep(10000) or sleep(5000) of the catch block is over
ErrorPauseOver ==
  /\ auto.pc \in {"overloadWait", "otherWait"}
  /\ AfterBatch(Slept(auto), outstanding, autoProgress)
  /\ UNCHANGED <<dbItems, stored, apiKey, isGenerating, loadingLevel, genCount, session,
                 view, manual, service, quota, download, reader>>

\* a second of the rest between batches is over
RestTick ==
  /\ auto.pc = "rest"
  /\ IF auto.i - 1 > 0 /\ ~stopAutoRef
       THEN /\ auto' = [auto EXCEPT !.i = auto.i - 1, !.sleptMs = @ + auto.sleepMs,
                                   !.newItems = <<>>, !.uniqueItems = <<>>]
            /\ autoProgress' = Progress(auto.level, auto.currentCount, auto.target,
                                        "rest", PrevStopping)
            /\ UNCHANGED <<stopAutoRef, alert, outstanding>>
       ELSE LoopHead([auto EXCEPT !.newItems = <<>>, !.uniqueItems = <<>>],
                     outstanding, autoProgress)
  /\ UNCHANGED <<dbItems, stored, apiKey, isGenerating, loadingLevel, genCount, session,
                 view, manual, service, quota, download, reader>>

\* the alert after the loop is closed: finally
AutoGenerateEnded ==
  /\ auto.pc = "alert"
  /\ alert' = "none"
  /\ auto' = IdleAuto
  /\ Finally
  /\ autoProgress' = NoProgress
  /\ stopAutoRef' = FALSE
  /\ UNCHANGED <<dbItems, stored, apiKey, genCount, session, view, manual, service, quota, download, reader,
                 outstanding>>

\* the stop button, shown and enabled while the run is not yet stopping
handleStopAuto ==
  /\ Unblocked
  /\ view = "home"
  /\ isGenerating
  /\ autoProgress # NoProgress
  /\ autoProgress.level = loadingLevel
  /\ ~autoProgress.isStopping
  /\ stopAutoRef' = TRUE
  /\ autoProgress' = [autoProgress EXCEPT !.status = "stopping", !.isStopping = TRUE]
  /\ UNCHANGED <<dbItems, stored, apiKey, isGenerating, loadingLevel, genCount, session,
                 view, manual, auto, service, quota, download, reader, outstanding, alert>>

(***************************************************************************)
(* CSV export and import (toCSV, parseCSV).  A text is a sequence of        *)
(* characters; in the items that are written and read every text field,    *)
(* the level included, is one.  The id of an item, a random string made on  *)
(* reading, is left out: nothing but the keys of the rendered lists reads   *)
(* it.                                                                      *)
(***************************************************************************)
CSV_HEADER ==
  <<"l", "e", "v", "e", "l", ",", "q", "u", "e", "s", "t", "i", "o", "n",
    ",", "o", "p", "t", "i", "o", "n", "1", ",", "o", "p", "t", "i", "o",
    "n", "2", ",", "o", "p", "t", "i", "o", "n", "3", ",", "o", "p", "t",
    "i", "o", "n", "4", ",", "c", "o", "r", "r", "e", "c", "t", "_", "i",
    "d", "x", ",", "e", "x", "p", "l", "a", "n", "a", "t", "i", "o", "n",
    ",", "a", "d", "v", "a", "n", "c", "e", "d", "_", "e", "x", "p", "l",
    "a", "n", "a", "t", "i", "o", "n", ",", "w", "i", "k", "i", "_", "l",
    "i", "n", "k", ",", "i", "s", "_", "j", "a", "p", "a", "n">>

\* String.split(separator), String.startsWith(prefix), Array.join(separator)
Split(s, separator) ==
  LET at == {i \in 1..Len(s) : s[i] = separator}
      n == Cardinality(at)
      \* the position of the k-th separator
      P(k) == CHOOSE i \in at : Cardinality({j \in at : j < i}) = k - 1
  IN  [k \in 1..(n + 1) |->
         SubSeq(s, IF k = 1 THEN 1 ELSE P(k - 1) + 1,
                   IF k = n + 1 THEN Len(s) ELSE P(k) - 1)]

startsWith(s, prefix) ==
  Len(prefix) <= Len(s) /\ SubSeq(s, 1, Len(prefix)) = prefix

RECURSIVE Join(_, _)
Join(parts, separator) ==
  IF parts = <<>>
    THEN <<>>
    ELSE IF Len(parts) = 1
      THEN parts[1]
      ELSE parts[1] \o <<separator>> \o Join(Tail(parts), separator)

\* String.toUpperCase, on the letters a to z
LowerLetters ==
  <<"a", "b", "c", "d", "e", "f", "g", "h", "i", "j", "k", "l", "m", "n",
    "o", "p", "q", "r", "s", "t", "u", "v", "w", "x", "y", "z">>
UpperLetters ==
  <<"A", "B", "C", "D", "E", "F", "G", "H", "I", "J", "K", "L", "M", "N",
    "O", "P", "Q", "R", "S", "T", "U", "V", "W", "X", "Y", "Z">>
UpperChar(c) ==
  IF \E k \in 1..26 : LowerLetters[k] = c
    THEN UpperLetters[CHOOSE k \in 1..26 : LowerLetters[k] = c]
    ELSE c
toUpperCase(s) == [k \in 1..Len(s) |-> UpperChar(s[k])]

\* String(n) of a number that is NaN or a natural number
RECURSIVE DigitsOf(_)
DigitsOf(n) ==
  IF n < 10
    THEN <<Digits[n + 1]>>
    ELSE DigitsOf(n \div 10) \o <<Digits[(n % 10) + 1]>>
NumberText(n) == IF n = NaN THEN <<"N", "a", "N">> ELSE DigitsOf(n)

\* parseInt(s, 10): leading white space and a "+" are skipped, the digits
\* that follow are the value, NaN when there is none (the texts of the model
\* hold no negative number)
parseInt(s) ==
  LET t == TrimStart(s)
      u == IF t # <<>> /\ Head(t) = "+" THEN Tail(t) ELSE t
  IN  IF DigitRun(u) = <<>> THEN NaN ELSE IntVal(DigitRun(u))

\* str.replace(/"/g, '""')
RECURSIVE DoubleQuotes(_)
DoubleQuotes(str) ==
  IF str = <<>>
    THEN <<>>
    ELSE (IF Head(str) = "\"" THEN <<"\"", "\"">> ELSE <<Head(str)>>)
           \o DoubleQuotes(Tail(str))

\* const clean = (str) => `"${str.replace(/"/g, '""')}"`
clean(str) == <<"\"">> \o DoubleQuotes(str) \o <<"\"">>

\* the row toCSV writes for an item
CsvRow(item) ==
  Join(<< item.level,
          clean(item.question),
          clean(item.option1),
          clean(item.option2),
          clean(item.option3),
          clean(item.option4),
          NumberText(item.correct_idx),
          clean(item.explanation),
          clean(item.advanced_explanation),
          item.wiki_link,
          IF item.is_japan THEN <<"T", "R", "U", "E">>
                           ELSE <<"F", "A", "L", "S", "E">> >>, ",")

toCSV(items) ==
  Join(<<CSV_HEADER>> \o [k \in 1..Len(items) |-> CsvRow(items[k])], "\n")

\* the item parseCSV makes of a row of at least 11 columns
ParsedRow(row) ==
  [level |-> row[1],
   question |-> row[2],
   option1 |-> row[3],
   option2 |-> row[4],
   option3 |-> row[5],
   option4 |-> row[6],
   correct_idx |-> parseInt(row[7]),
   explanation |-> row[8],
   advanced_explanation |-> row[9],
   wiki_link |-> row[10],
   is_japan |-> toUpperCase(row[11]) = <<"T", "R", "U", "E">>]

\* lines[0].startsWith('level,question') ? 1 : 0
HeaderPrefix == SubSeq(CSV_HEADER, 1, 14)
StartIndexZero(lines) == 0
StartIndex(lines) == IF startsWith(lines[1], HeaderPrefix) THEN 1 ELSE 0

\* if (row.length >= 11) items.push(...)
HasColumns(row) == Len(row) >= 11

parseCSV(csvText) ==
  LET lines == Split(Trim(csvText), "\n")
      rows == [k \in 1..Len(lines) |-> Split(lines[k], ",")]
      kept == SelectSeq(Slice(rows, StartIndex(lines)),
                        HasColumns)
  IN  [k \in 1..Len(kept) |-> ParsedRow(kept[k])]

(***************************************************************************)
(* The data management screen: import of a CSV file and the full reset.    *)
(* The button that opens the screen and the header are not disabled while  *)
(* a generation is in progress.                                            *)
(***************************************************************************)
\* what parseCSV makes of the files of the model: a file that repeats a
\* question, and a file of distinct questions with more rows of one level
\* than the cap (cells are not trimmed by parseCSV)
ParsedFiles ==
  { <<Item("L2", <<"a">>), Item("L2", <<"a">>)>>,
    <<Item("L3", <<" ", "a">>), Item("L3", <<"b">>), Item("L3", <<"c">>)>> }

\* parsed.filter(n => !isDuplicate(n.question, dbItems)), dbItems being the
\* bank of the render whose handler started the read
ImportUnique(parsed, seen) ==
  SelectSeq(parsed, LAMBDA n : ~isDuplicate(n.question, seen))

\* setDbItems(prev => [...prev, ...unique])
ImportMerge(prev, parsed, seen) == prev \o ImportUnique(parsed, seen)

\* the button "data management" of the home screen
OpenManage ==
  /\ Unblocked
  /\ view = "home"
  /\ view' = "manage"
  /\ UNCHANGED <<dbItems, stored, apiKey, isGenerating, loadingLevel, genCount,
                 stopAutoRef, autoProgress, session, manual, auto, service, quota, download,
                 reader, outstanding, alert>>

\* the files of the model that are given by their text: the header, a row
\* of 9 columns and two rows of 11; no header, a row of 11 columns, an empty
\* line, a row of 12 and one of 10, and a line end after the last; a header
\* alone; an empty file
CsvTexts ==
  { Join(<< CSV_HEADER,
            Join(<<<<"3">>, <<"p">>, <<"a">>, <<"b">>, <<"c">>, <<"d">>, <<"1">>,
                   <<"e">>, <<"f">>>>, ","),
            Join(<<<<"3">>, <<"q">>, <<"a">>, <<"b">>, <<"c">>, <<"d">>, <<"2">>,
                   <<"e">>, <<"f">>, <<"w">>, <<"t", "r", "u", "e">>>>, ","),
            Join(<<<<"2">>, <<"r">>, <<"a">>, <<"b">>, <<"c">>, <<"d">>, <<"x">>,
                   <<"e">>, <<>>, <<"w">>, <<"F", "A", "L", "S", "E">>>>, ",") >>,
         "\n"),
    Join(<< Join(<<<<"3">>, <<"q">>, <<"a">>, <<"b">>, <<"c">>, <<"d">>, <<"0">>,
                   <<"e">>, <<"f">>, <<"w">>, <<"T", "R", "U", "E">>>>, ","),
            <<>>,
            Join(<<<<"2">>, <<"r">>, <<"a">>, <<"b">>, <<"c">>, <<"d">>, <<"3">>,
                   <<"e">>, <<"f">>, <<"w">>, <<"n", "o">>, <<"z">>>>, ","),
            Join(<<<<"2">>, <<"s">>, <<"a">>, <<"b">>, <<"c">>, <<"d">>, <<"3">>,
                   <<"e">>, <<"f">>, <<"w">>>>, ","),
            <<>> >>,
         "\n"),
    CSV_HEADER,
    <<>> }

\* a file is chosen of which the model has the text
handleImportText ==
  /\ Unblocked
  /\ view = "manage"
  /\ reader.pc = "idle"
  /\ \E text \in CsvTexts \cup (IF download = <<>> THEN {} ELSE {download}) :
       reader' = [pc |-> "reading", text |-> text, parsed |-> parseCSV(text),
                  dbItems |-> dbItems]
  /\ UNCHANGED <<dbItems, stored, apiKey, isGenerating, loadingLevel, genCount,
                 stopAutoRef, autoProgress, session, view, manual, auto, service,
                 quota, download, outstanding, alert>>

\* the export button: downloadCSV(toCSV(dbItems), ...); texts longer than
\* MaxTextLen are left out
handleExportCSV ==
  /\ Unblocked
  /\ view = "manage"
  /\ Len(toCSV(dbItems)) <= MaxTextLen
  /\ download' = toCSV(dbItems)
  /\ UNCHANGED <<dbItems, stored, apiKey, isGenerating, loadingLevel, genCount,
                 stopAutoRef, autoProgress, session, view, manual, auto, service,
                 quota, reader, outstanding, alert>>

\* a file is chosen: reader.readAsText(file)
handleImportCSV ==
  /\ Unblocked
  /\ view = "manage"
  /\ reader.pc = "idle"
  /\ \E parsed \in ParsedFiles :
       reader' = [pc |-> "reading", text |-> <<>>, parsed |-> parsed,
                  dbItems |-> dbItems]
  /\ UNCHANGED <<dbItems, stored, apiKey, isGenerating, loadingLevel, genCount,
                 stopAutoRef, autoProgress, session, view, manual, auto, service,
                 quota, download, outstanding, alert>>

\* reader.onload: confirm() chooses between appending and replacing; the
\* effect on dbItems saves the new bank
ReaderOnload ==
  /\ Unblocked
  /\ reader.pc = "reading"
  /\ \E append \in BOOLEAN :
       dbItems' = IF append
                    THEN ImportMerge(dbItems, reader.parsed, reader.dbItems)
                    ELSE reader.parsed
  /\ Persist(dbItems')
  /\ reader' = NoReader
  /\ UNCHANGED <<apiKey, isGenerating, loadingLevel, genCount, stopAutoRef,
                 autoProgress, session, view, manual, auto, service, quota, download,
                 outstanding, alert>>

\* the button "delete all data", confirmed
ResetAll ==
  /\ Unblocked
  /\ view = "manage"
  /\ dbItems' = <<>>
  /\ Persist(dbItems')
  /\ UNCHANGED <<apiKey, isGenerating, loadingLevel, genCount, stopAutoRef,
                 autoProgress, session, view, manual, auto, service, quota, download, reader,
                 outstanding, alert>>

(***************************************************************************)
(* handleReviewLevel (Mode C) and the play screen.                         *)
(***************************************************************************)
\* a QuizItem with the field the play screen reads beside level and question
QuizItem(level, question, correct_idx) ==
  [level |-> level, question |-> question, correct_idx |-> correct_idx]

\* the four option buttons of a question
OptionIndexes == 0..3

\* array.slice(a, b)
SliceRange(s, a, b) == SubSeq(s, a + 1, MinOf(b, Len(s)))

\* [array[i], array[j]] = [array[j], array[i]], indexes 0-based
SwapOverwrites(array, i, j) == [array EXCEPT ![i + 1] = array[j + 1]]
Swap(array, i, j) ==
  [array EXCEPT ![i + 1] = array[j + 1], ![j + 1] = array[i + 1]]

\* the Fisher-Yates loop from index i down to 1: every array it can leave,
\* j being any of 0..i at each turn
RECURSIVE ShuffleFrom(_, _)
ShuffleFrom(array, i) ==
  IF i <= 0
    THEN {array}
    ELSE UNION {ShuffleFrom(Swap(array, i, j), i - 1) : j \in 0..i}

\* the outcomes of shuffleArray(array), which works on a copy
shuffleArray(array) == ShuffleFrom(array, Len(array) - 1)

\* shuffled.slice(0, DEFAULT_SESSION_COUNT)
ReviewSelectionAll(shuffled) == shuffled
ReviewSelection(shuffled) == SliceRange(shuffled, 0, DEFAULT_SESSION_COUNT)

\* const question = sessionItems[currentQIndex]; undefined when out of range
HasQuestion(s) == s.currentQIndex + 1 \in 1..Len(s.items)
Question(s) == s.items[s.currentQIndex + 1]

\* if (idx === sessionItems[currentQIndex].correct_idx) setScore(s => s + 1)
GainAlways(s, idx) == 1
Gain(s, idx) == IF idx = Question(s).correct_idx THEN 1 ELSE 0

\* handleAnswer(idx) on the session s
AnswerUnlocked(s, idx) ==
  [s EXCEPT !.selectedOption = idx, !.showResult = TRUE,
            !.score = s.score + Gain(s, idx),
            !.answers = Append(s.answers, idx)]
Answer(s, idx) ==
  IF s.showResult
    THEN s
    ELSE [s EXCEPT !.selectedOption = idx, !.showResult = TRUE,
                   !.score = s.score + Gain(s, idx),
                   !.answers = Append(s.answers, idx)]

\* the options the play screen marks as the correct one
RevealedCorrect(s) ==
  {idx \in OptionIndexes : s.showResult /\ idx = Question(s).correct_idx}

\* currentQIndex < sessionItems.length - 1
HasNextAlways(s) == TRUE
HasNext(s) == s.currentQIndex < Len(s.items) - 1

\* what the closing alert of a session shows: score / sessionItems.length
FinalReport(s) == <<s.score, Len(s.items)>>

\* the "past questions" button of a level (the button is disabled while a
\* generation is in progress and while the level has no saved item; the
\* handler checks the second on its own)
handleReviewLevel(level) ==
  /\ Unblocked
  /\ view = "home"
  /\ ~isGenerating
  /\ LET levelItems == LevelItems(dbItems, level)
     IN  IF Len(levelItems) = 0
           THEN /\ alert' = "nothing to review"
                /\ UNCHANGED <<session, view>>
           ELSE /\ \E shuffled \in shuffleArray(levelItems) :
                     session' = [NewSession(ReviewSelection(shuffled), "review")
                                   EXCEPT !.shuffled = shuffled]
                /\ view' = "play"
                /\ alert' = alert
  /\ UNCHANGED <<dbItems, stored, apiKey, isGenerating, loadingLevel, genCount,
                 stopAutoRef, autoProgress, manual, auto, service, quota, download, reader,
                 outstanding>>

\* the alert of handleReviewLevel is closed
ReviewRejected ==
  /\ alert = "nothing to review"
  /\ alert' = "none"
  /\ UNCHANGED <<dbItems, stored, apiKey, isGenerating, loadingLevel, genCount,
                 stopAutoRef, autoProgress, session, view, manual, auto, service,
                 quota, download, reader, outstanding>>

\* an option button of the play screen, which shows nothing when there is no
\* current question
handleAnswer(idx) ==
  /\ Unblocked
  /\ view = "play"
  /\ HasQuestion(session)
  /\ session' = Answer(session, idx)
  /\ UNCHANGED <<dbItems, stored, apiKey, isGenerating, loadingLevel, genCount,
                 stopAutoRef, autoProgress, view, manual, auto, service, quota, download,
                 reader, outstanding, alert>>

\* the "next" button, shown once the result is
nextQuestion ==
  /\ Unblocked
  /\ view = "play"
  /\ HasQuestion(session)
  /\ session.showResult
  /\ IF HasNext(session)
       THEN /\ session' = [session EXCEPT !.currentQIndex = session.currentQIndex + 1,
                                          !.selectedOption = NoOption,
                                          !.showResult = FALSE,
                                          !.isConfirmingExit = FALSE]
            /\ alert' = alert
       ELSE /\ alert' = "final score"
            /\ session' = session
  /\ UNCHANGED <<dbItems, stored, apiKey, isGenerating, loadingLevel, genCount,
                 stopAutoRef, autoProgress, view, manual, auto, service, quota, download,
                 reader, outstanding>>

\* the closing alert is closed: setView('home')
SessionEnded ==
  /\ alert = "final score"
  /\ alert' = "none"
  /\ view' = "home"
  /\ UNCHANGED <<dbItems, stored, apiKey, isGenerating, loadingLevel, genCount,
                 stopAutoRef, autoProgress, session, manual, auto, service, quota, download,
                 reader, outstanding>>

\* the footer of the play screen: "quit", then "yes" or "no"
AskExit ==
  /\ Unblocked
  /\ view = "play"
  /\ HasQuestion(session)
  /\ ~session.isConfirmingExit
  /\ session' = [session EXCEPT !.isConfirmingExit = TRUE]
  /\ UNCHANGED <<dbItems, stored, apiKey, isGenerating, loadingLevel, genCount,
                 stopAutoRef, autoProgress, view, manual, auto, service, quota, download,
                 reader, outstanding, alert>>

ConfirmExit ==
  /\ Unblocked
  /\ view = "play"
  /\ HasQuestion(session)
  /\ session.isConfirmingExit
  /\ view' = "home"
  /\ UNCHANGED <<dbItems, stored, apiKey, isGenerating, loadingLevel, genCount,
                 stopAutoRef, autoProgress, session, manual, auto, service, quota, download,
                 reader, outstanding, alert>>

CancelExit ==
  /\ Unblocked
  /\ view = "play"
  /\ HasQuestion(session)
  /\ session.isConfirmingExit
  /\ session' = [session EXCEPT !.isConfirmingExit = FALSE]
  /\ UNCHANGED <<dbItems, stored, apiKey, isGenerating, loadingLevel, genCount,
                 stopAutoRef, autoProgress, view, manual, auto, service, quota, download,
                 reader, outstanding, alert>>

(***************************************************************************)
(* The specifications.                                                     *)
(***************************************************************************)
Navigation ==
  \/ TriggerRejected
  \/ handleSaveApiKey
  \/ GoHome

ManualFailures ==
  \/ GenerateLevelRetry
  \/ GenerateLevelResend
  \/ GenerateLevelFail
  \/ GenerateLevelFailed

AutoFailures ==
  \/ AutoGenerateRetry
  \/ AutoGenerateResend
  \/ AutoGenerateFail
  \/ RateLimitTick
  \/ ErrorPauseOver

\* what the Auto-Fill run does by itself: the answers of the network and
\* the timers
AutoProgresses ==
  \/ AutoGenerateDone
  \/ RestTick
  \/ AutoFailures

\* the bank under a service that always answers
BankInit == InitWith("reliable", <<>>, RoomyQuota)
BankNext ==
  \/ Navigation
  \/ \E level \in ItemLevels : GenerateLevelStart(level)
  \/ GenerateLevelDone
  \/ \E level \in ItemLevels : AutoGenerateStart(level, TargetOf(level))
  \/ \E level \in ItemLevels : AutoGenerateAlreadyReached(level, TargetOf(level))
  \/ AutoGenerateReturn
  \/ AutoGenerateDone
  \/ RestTick
  \/ AutoGenerateEnded
  \/ handleStopAuto
BankSpec == BankInit /\ [][BankNext]_vars

\* both handlers under a service that fails
LoopInit == InitWith("faulty", <<>>, RoomyQuota)
LoopNext ==
  \/ Navigation
  \/ \E level \in QuizLevel : GenerateLevelStart(level)
  \/ GenerateLevelDone
  \/ ManualFailures
  \/ \E level \in QuizLevel : AutoGenerateStart(level, TargetOf(level))
  \/ \E level \in QuizLevel : AutoGenerateAlreadyReached(level, TargetOf(level))
  \/ AutoGenerateReturn
  \/ AutoGenerateDone
  \/ RestTick
  \/ AutoFailures
  \/ AutoGenerateEnded
  \/ handleStopAuto
LoopSpec == LoopInit /\ [][LoopNext]_vars
\* the network answers and the timers fire
FairLoopSpec == LoopSpec /\ WF_vars(AutoProgresses)

\* the Auto-Fill loop with the test double as its client and the scenario's
\* target, from a bank that holds k items of level L3 (the loop never reads
\* the cap, so the scaled cap does not bound these banks)
MockInit ==
  \E k \in 0..(ScenarioTarget - 1) :
    InitWith("mock", MockBatch("L3", k, <<>>), RoomyQuota)
MockNext ==
  \/ Navigation
  \/ \E level \in ItemLevels : AutoGenerateStart(level, ScenarioTarget)
  \/ \E level \in ItemLevels : AutoGenerateAlreadyReached(level, ScenarioTarget)
  \/ AutoGenerateReturn
  \/ AutoGenerateDone
  \/ RestTick
  \/ AutoGenerateEnded
  \/ handleStopAuto
MockSpec == MockInit /\ [][MockNext]_vars
FairMockSpec == MockSpec /\ WF_vars(AutoProgresses)

\* the Auto-Fill loop with the test double as its client and a localStorage
\* that may be too small for the bank the run builds
StoreInit ==
  \E k \in 0..TightQuota, room \in {TightQuota, RoomyQuota} :
    InitWith("mock", MockBatch("L3", k, <<>>), room)
StoreSpec == StoreInit /\ [][MockNext]_vars

\* the data management screen beside both handlers, under a service that
\* always answers; Auto-Fill is run for level 3, the files bring level 2
DataManagement ==
  \/ OpenManage
  \/ handleImportCSV
  \/ ReaderOnload
  \/ ResetAll

ManageInit == InitWith("steady", <<>>, RoomyQuota)
ManageNext ==
  \/ Navigation
  \/ DataManagement
  \/ \E level \in ItemLevels : GenerateLevelStart(level)
  \/ GenerateLevelDone
  \/ \E level \in {"L3"} : AutoGenerateStart(level, TargetOf(level))
  \/ \E level \in {"L3"} : AutoGenerateAlreadyReached(level, TargetOf(level))
  \/ AutoGenerateReturn
  \/ AutoGenerateDone
  \/ RestTick
  \/ AutoGenerateEnded
  \/ handleStopAuto
ManageSpec == ManageInit /\ [][ManageNext]_vars

\* the banks of the play sessions: up to MaxSaved items of level 3 and one of
\* level 2, as generations or an import have left them
PlayBank(k) ==
  [n \in 1..k |-> QuizItem("L3", MockText(n), n % 4)]
    \o <<QuizItem("L2", MockText(0), 3)>>

Play ==
  \/ \E level \in QuizLevel : handleReviewLevel(level)
  \/ ReviewRejected
  \/ \E idx \in OptionIndexes : handleAnswer(idx)
  \/ nextQuestion
  \/ SessionEnded
  \/ AskExit
  \/ ConfirmExit
  \/ CancelExit

PlayInit == \E k \in 0..MaxSaved : InitWith("steady", PlayBank(k), RoomyQuota)
PlayNext ==
  \/ Navigation
  \/ Play
PlaySpec == PlayInit /\ [][PlayNext]_vars

\* manual generations alone, under the service that may fail
ManualInit == InitWith("faulty", <<>>, RoomyQuota)
ManualNext ==
  \/ Navigation
  \/ ManualFailures
  \/ \E level \in ItemLevels : GenerateLevelStart(level)
  \/ GenerateLevelDone
ManualSpec == ManualInit /\ [][ManualNext]_vars

\* export and import of CSV files: the banks hold well-formed items whose
\* text fields have neither comma nor quote
CsvItems ==
  { [level |-> <<"3">>, question |-> <<"q">>, option1 |-> <<"a">>,
     option2 |-> <<"b">>, option3 |-> <<"c">>, option4 |-> <<"d">>,
     correct_idx |-> 2, explanation |-> <<"e">>,
     advanced_explanation |-> <<"f">>, wiki_link |-> <<"w">>, is_japan |-> TRUE],
    [level |-> <<"2">>, question |-> <<"r", " ", "s">>, option1 |-> <<"a">>,
     option2 |-> <<"b">>, option3 |-> <<"c">>, option4 |-> <<"d">>,
     correct_idx |-> 0, explanation |-> <<"e">>,
     advanced_explanation |-> <<>>, wiki_link |-> <<"w">>, is_japan |-> FALSE] }

CsvBanks == UNION {[1..n -> CsvItems] : n \in 0..MaxRows}

CsvInit == \E db \in CsvBanks : InitWith("steady", db, RoomyQuota)
CsvNext ==
  \/ GoHome
  \/ OpenManage
  \/ handleExportCSV
  \/ handleImportText
  \/ ReaderOnload
  \/ ResetAll
CsvSpec == CsvInit /\ [][CsvNext]_vars

\* both handlers under the faulty service, with a localStorage that is full:
\* every write of a bank that holds an item fails
FullStoreInit == InitWith("faulty", <<>>, FullQuota)
FullStoreSpec == FullStoreInit /\ [][LoopNext]_vars


(***************************************************************************)
(* The claims.                                                             *)
(***************************************************************************)

\* C1: from an empty bank, after any merges of service batches (manual or
\* Auto-Fill, batches that repeat a text included), no two items of the bank
\* have the same level and equal trimmed question texts.
C1_NoSameLevelDuplicate ==
  \A i, j \in 1..Len(dbItems) :
    (i # j /\ dbItems[i].level = dbItems[j].level)
      => Trim(dbItems[i].question) # Trim(dbItems[j].question)

\* C6: a step that changes the bank leaves every level either as it was, or
\* extended at its end and within the cap, or holding exactly the cap with
\* what is left of its old items, in their order, at the front (the oldest
\* are evicted); no level ever holds more than the cap.
C6_EvictsOldestToCap ==
  [][dbItems' # dbItems =>
       \A l \in QuizLevel :
         LET before == LevelItems(dbItems, l)
             after == LevelItems(dbItems', l)
             StartsWith(s, t) == Len(t) <= Len(s) /\ SubSeq(s, 1, Len(t)) = t
         IN  \/ after = before
             \/ Len(after) <= MAX_QUESTIONS_PER_LEVEL /\ StartsWith(after, before)
             \/ /\ Len(after) = MAX_QUESTIONS_PER_LEVEL
                /\ \E k \in 1..Len(before) :
                     StartsWith(after, SubSeq(before, k + 1, Len(before)))]_vars

\* C2: with the client that always returns the requested number of new,
\* pairwise distinct items of the requested level, an Auto-Fill run that is
\* not cancelled ends, and it ends with the level's count equal to the
\* target and the status "target reached".
C2_MockRunReachesTarget ==
  /\ []((auto.pc = "alert" /\ ~stopAutoRef)
          => /\ alert = "target reached"
             /\ auto.currentCount = auto.target
             /\ CountOf(dbItems, auto.level) = auto.target)
  /\ (auto.pc \in {"call", "rest"} /\ ~stopAutoRef)
       ~> \/ stopAutoRef
          \/ /\ auto.pc = "alert"
             /\ alert = "target reached"
             /\ auto.currentCount = auto.target

\* a run that started below the target has ended, uncancelled, at the target
C2_Witness ==
  /\ auto.pc = "alert"
  /\ ~stopAutoRef
  /\ auto.startCount < auto.target
  /\ alert = "target reached"
  /\ CountOf(dbItems, auto.level) = auto.target

\* C7: every batch request of Auto-Fill asks for min(10, target - current)
\* items and for at least 1; from an empty bank and with the scenario's
\* target of 15 the run makes exactly two calls, for 10 and then 5 items,
\* and ends with 15 items and the status "target reached".
C7_BatchSizes ==
  /\ auto.pc = "call" =>
       LET n == auto.client.count
           remaining == auto.target - auto.currentCount
       IN  /\ n >= 1
           /\ n <= 10
           /\ n <= remaining
           /\ n = 10 \/ n = remaining
  /\ (auto.startCount = 0 /\ Len(auto.localDb) = auto.currentCount
        /\ auto.target = ScenarioTarget /\ auto.pc \in {"call", "rest", "alert"}) =>
       /\ auto.callsInRun <= 2
       /\ (auto.pc = "call" /\ auto.callsInRun = 1) => auto.client.count = 10
       /\ (auto.pc = "call" /\ auto.callsInRun = 2) =>
            /\ auto.client.count = ScenarioTarget - 10
            /\ ScenarioTarget = 15 => auto.client.count = 5
       /\ (auto.pc = "alert" /\ ~stopAutoRef) =>
            /\ auto.callsInRun = 2
            /\ auto.currentCount = ScenarioTarget
            /\ Len(dbItems) = ScenarioTarget
            /\ alert = "target reached"

\* the scenario's run has ended after its second call
C7_Witness ==
  /\ auto.pc = "alert"
  /\ ~stopAutoRef
  /\ auto.startCount = 0
  /\ Len(dbItems) = ScenarioTarget
  /\ auto.callsInRun = 2
  /\ alert = "target reached"

\* C3: once the stop action has set the cancellation flag, the run starts no
\* further generateQuizBatch call: no step taken with the flag set moves the
\* loop into a call or raises the number of calls outstanding.
C3_NoCallAfterCancel ==
  [][stopAutoRef =>
       /\ outstanding' <= outstanding
       /\ auto'.pc = "call" => auto.pc = "call"]_vars

\* a run was cancelled during its first call and has ended without a second
C3_Witness ==
  /\ stopAutoRef
  /\ auto.pc = "alert"
  /\ auto.callsInRun = 1
  /\ outstanding = 0

\* C4: at most one generateQuizBatch call is outstanding at any moment: the
\* two handlers are never active together, and while a generation is in
\* progress no step starts a manual call or a new Auto-Fill run, and the
\* running loop starts a call only when none is outstanding.
C4_OneCallOutstanding ==
  /\ [](/\ outstanding <= 1
        /\ ~(manual.pc # "idle" /\ auto.pc # "idle")
        /\ outstanding = 1 => isGenerating)
  /\ [][isGenerating =>
          /\ manual'.pc = "await" => manual.pc = "await"
          /\ auto'.pc = "call" => auto.pc \notin {"idle", "reached", "alert"}
          /\ outstanding' > outstanding => outstanding = 0]_vars

\* the loop's second call is outstanding, after its first one was settled
C4_Witness ==
  /\ isGenerating
  /\ auto.pc = "call"
  /\ auto.callsInRun = 2
  /\ outstanding = 1

\* C5: a run ends only with the cancellation flag set or with the target
\* met; no error of a batch call reaches handleError while a run is active;
\* and after every error the call throws, unless the run is cancelled, the
\* loop issues another call.
C5_ErrorsAreRetried ==
  /\ [](auto.pc = "alert" => stopAutoRef \/ auto.currentCount >= auto.target)
  /\ []((isGenerating /\ manual.pc = "idle")
          => alert \in {"none", "target reached", "stopped by user"})
  /\ [](auto.thrown # NoError
          => auto.pc \in {"rateWait", "overloadWait", "otherWait", "alert"})
  /\ (auto.pc \in {"rateWait", "overloadWait", "otherWait"} /\ ~stopAutoRef)
       ~> (stopAutoRef \/ auto.pc = "call")

\* a later call of a run has thrown an error the client does not retry, and
\* the run pauses
C5_Witness ==
  /\ auto.pc = "otherWait"
  /\ auto.thrown = ENotJSON
  /\ auto.callsInRun >= 2
  /\ isGenerating
  /\ ~stopAutoRef

\* C8: one generateQuizBatch call sends at most 6 requests; a request after
\* the first is sent only after a failure of the rate-limit or overload
\* kind; and the error the call throws is the error of its last attempt.
C8_RetryBudget ==
  LET RateLimitOrOverload(e) ==
        \/ e.message \cap {"429", "quota", "503", "overloaded"} # {}
        \/ e.status \in {429, 503}
        \/ e.code \in {429, 503}
      Within(c, lastFailure, thrown) ==
        /\ c.sent <= 6
        /\ c.sent <= 1 + maxRetries
        /\ c.phase \in {"sleep", "request"} =>
             /\ c.attempt > 0 => RateLimitOrOverload(c.lastError)
             /\ c.sent = IF c.phase = "sleep" THEN c.attempt ELSE c.attempt + 1
        /\ thrown # NoError => thrown = lastFailure
  IN  /\ Within(manual.client, manual.lastFailure, manual.thrown)
      /\ Within(auto.client, auto.lastFailure, auto.thrown)

\* a call has thrown after its sixth request failed
C8_Witness ==
  /\ manual.pc = "alert"
  /\ manual.client.sent = 6
  /\ manual.thrown = E503

\* C9: while the client waits before retry a (1 <= a <= 5), the wait is the
\* hinted seconds * 1000 + 1000 ms when the last error carries a well-formed
\* hint (4500 ms for "retry in 3.5s"), and lies in
\* [2^a * 1000, 2^a * 1000 + 1000) ms when it carries none.
C9_RetryWait ==
  LET Waits(c) ==
        c.phase = "sleep" =>
          /\ c.attempt \in 1..5
          /\ c.lastError.hint = <<"3", ".", "5">> => c.waitTime = 4500
          /\ c.lastError.hint = NoHint =>
               /\ (2 ^ c.attempt) * 1000 <= c.waitTime
               /\ c.waitTime < (2 ^ c.attempt) * 1000 + 1000
  IN  Waits(manual.client) /\ Waits(auto.client)

\* the client waits 4500 ms before its third retry
C9_Witness ==
  /\ auto.client.phase = "sleep"
  /\ auto.client.attempt = 3
  /\ auto.client.lastError = E429Hint
  /\ auto.client.waitTime = 4500

\* C10: a cancelled run ends; an ended run reports "target reached" exactly
\* when its count has reached the target and "stopped by user" otherwise.
C10_CancelEndsRun ==
  /\ [](auto.pc = "alert" =>
          /\ alert \in {"target reached", "stopped by user"}
          /\ alert = "target reached" <=> auto.currentCount >= auto.target
          /\ alert = "stopped by user" <=> auto.currentCount < auto.target)
  /\ (stopAutoRef /\ auto.pc \in {"call", "rateWait", "overloadWait", "otherWait", "rest"})
       ~> auto.pc = "alert"

\* a run cancelled below its target reports "stopped by user"
C10_Witness ==
  /\ auto.pc = "alert"
  /\ stopAutoRef
  /\ auto.currentCount < auto.target
  /\ alert = "stopped by user"
  /\ autoProgress.isStopping

\* C11 (as stated): whenever a step of the run merges a batch and reports
\* the new count, the persisted store holds the merged bank, with as many
\* items of the level as the snapshot reports.
C11_StoreHoldsReportedCount ==
  [][(auto.pc = "call" /\ auto'.currentCount > auto.currentCount) =>
       /\ autoProgress'.current = auto'.currentCount
       /\ stored' = auto'.localDb
       /\ CountOf(stored', auto.level) = autoProgress'.current]_vars

\* C11 (amended): in the step that merges a batch, the bank and the store
\* are written before the snapshot with the new count is reported: the
\* snapshot reports the merged count, the bank is the merged bank, and the
\* store holds the merged bank whenever it fits, and is left as it was when
\* the write throws.
C11_WriteAttemptedBeforeReport ==
  [][(auto.pc = "call" /\ auto'.currentCount > auto.currentCount) =>
       /\ autoProgress'.current = auto'.currentCount
       /\ dbItems' = auto'.localDb
       /\ Len(auto'.localDb) <= quota =>
            /\ stored' = auto'.localDb
            /\ CountOf(stored', auto.level) = autoProgress'.current
       /\ Len(auto'.localDb) > quota => stored' = stored]_vars

\* a batch was merged into a store with little room, and the store holds it
C11_Witness ==
  /\ quota = TightQuota
  /\ auto.pc = "rest"
  /\ auto.currentCount > auto.startCount
  /\ autoProgress.current = auto.currentCount
  /\ stored = auto.localDb
  /\ CountOf(stored, auto.level) = autoProgress.current


\* C12: while an Auto-Fill run is active, every change of the bank or of the
\* store is a merge of the controller: the bank becomes the controller's
\* working copy, which that step has just extended.  An import or a reset
\* from the data management screen, which stays reachable during a run,
\* breaks this.
C12_ControllerIsOnlyWriter ==
  [][(auto.pc \in {"call", "rateWait", "otherWait", "rest"}
        /\ (dbItems' # dbItems \/ stored' # stored)) =>
       /\ auto.pc = "call"
       /\ auto'.localDb # auto.localDb
       /\ dbItems' = auto'.localDb]_vars


\* C13: in every state reached by manual generations, Auto-Fill merges and
\* imports, no level of the bank holds more than MAX_QUESTIONS_PER_LEVEL
\* items.  An import is not capped (nor is an Auto-Fill merge), so this fails.
C13_EveryLevelWithinCap ==
  \A l \in QuizLevel : CountOf(dbItems, l) <= MAX_QUESTIONS_PER_LEVEL

\* C14: when the read of an imported file completes on a bank without
\* same-level duplicates, the bank it leaves (appended to or replaced) has no
\* two items of one level with equal trimmed question texts.  A file that
\* repeats a question breaks this in both modes.
C14_ImportKeepsLevelsDuplicateFree ==
  [][LET Clean(db) ==
           \A i, j \in 1..Len(db) :
             (i # j /\ db[i].level = db[j].level)
               => Trim(db[i].question) # Trim(db[j].question)
     IN  (reader.pc = "reading" /\ reader'.pc = "idle" /\ Clean(dbItems))
           => Clean(dbItems')]_vars


\* C15: when a manual generation merges its batch, every item of the batch
\* whose trimmed question text equals that of a bank item of another level,
\* and of no bank item of its own level, is in the bank after the merge.  The
\* merge compares with the whole bank, so such an item is dropped.
C15_CrossLevelDuplicateSurvives ==
  [][(manual.pc = "await" /\ manual'.pc = "idle" /\ view' = "play") =>
       \A k \in 1..Len(session'.items) :
         LET n == session'.items[k]
         IN  (/\ isDuplicate(n.question, OtherItems(dbItems, n.level))
              /\ ~isDuplicate(n.question, LevelItems(dbItems, n.level)))
               => \E i \in 1..Len(dbItems') : dbItems'[i] = n]_vars


\* C16: a step that answers the current, not yet answered question with the
\* option i reveals the result, records i as the selected option, adds 1 to
\* the score if i is the question's correct_idx and nothing otherwise, and the
\* play screen then marks exactly the option correct_idx as the correct one.
C16_AnswerScoresAndReveals ==
  [][(view = "play" /\ Len(session'.answers) = Len(session.answers) + 1) =>
       LET q == Question(session)
           i == session'.selectedOption
       IN  /\ ~session.showResult
           /\ session'.showResult
           /\ i \in OptionIndexes
           /\ session'.answers = Append(session.answers, i)
           /\ session'.score = session.score + (IF i = q.correct_idx THEN 1 ELSE 0)
           /\ Question(session') = q
           /\ RevealedCorrect(session') = {q.correct_idx}]_vars

\* the first question was answered with a wrong option and the second with
\* the correct one
C16_Witness ==
  /\ view = "play"
  /\ session.showResult
  /\ Len(session.answers) = 2
  /\ session.answers[1] # session.items[1].correct_idx
  /\ session.answers[2] = session.items[2].correct_idx
  /\ session.selectedOption = session.answers[2]
  /\ session.score = 1


\* C17: while the current question is answered and the cursor stays where it
\* is, no step of the play screen (a further answer included) changes the
\* selected option, the score or the answers given; and always
\* score <= number of answered questions <= session length, the answered
\* questions being those before the cursor and the current one once answered.
C17_OneAnswerPerQuestion ==
  /\ [][(/\ view = "play"
         /\ session.showResult
         /\ session'.currentQIndex = session.currentQIndex) =>
          /\ session'.selectedOption = session.selectedOption
          /\ session'.score = session.score
          /\ session'.answers = session.answers
          /\ session'.showResult]_vars
  /\ [](/\ session.score <= Len(session.answers)
        /\ Len(session.answers) <= Len(session.items)
        /\ Len(session.answers)
             = session.currentQIndex + (IF session.showResult THEN 1 ELSE 0))

\* every question of a session of two has been answered, one of them right
C17_Witness ==
  /\ view = "play"
  /\ session.showResult
  /\ Len(session.items) = 2
  /\ Len(session.answers) = 2
  /\ session.score = 1
  /\ session.selectedOption # Question(session).correct_idx


\* C18: on the play screen the cursor moves only by the "next" action on an
\* answered question k < length-1, which sets it to k+1, unlocks selection and
\* leaves no option selected (items and score as they were); "next" on the
\* last question raises the closing alert, whose report is (number of
\* questions answered correctly, session length) and after which the view is
\* home; the cursor of a session that has questions stays in [0, length-1].
C18_AdvanceAndFinalScore ==
  /\ [][(view = "play" /\ session.showResult /\ ~session'.showResult) =>
          /\ session.currentQIndex < Len(session.items) - 1
          /\ session' = [session EXCEPT !.currentQIndex = session.currentQIndex + 1,
                                        !.selectedOption = NoOption,
                                        !.showResult = FALSE,
                                        !.isConfirmingExit = FALSE]]_vars
  /\ [][(view = "play" /\ session'.currentQIndex # session.currentQIndex) =>
          (session.showResult /\ ~session'.showResult)]_vars
  /\ [][(alert # "final score" /\ alert' = "final score") =>
          /\ view = "play"
          /\ session.showResult
          /\ session.currentQIndex = Len(session.items) - 1
          /\ session' = session]_vars
  /\ [][(alert = "final score" /\ alert' # "final score") => view' = "home"]_vars
  /\ [](alert = "final score" =>
          FinalReport(session) =
            << Cardinality({k \in 1..Len(session.items) :
                              session.answers[k] = session.items[k].correct_idx}),
               Len(session.items) >>)
  /\ [](session.items # <<>> =>
          session.currentQIndex \in 0..(Len(session.items) - 1))

\* a session of two questions has ended with one of them answered correctly
C18_Witness ==
  /\ alert = "final score"
  /\ Len(session.items) = 2
  /\ session.currentQIndex = 1
  /\ FinalReport(session) = <<1, 2>>


\* C19: the step that completes a manual generation makes the session
\* exactly the batch the client returned, in its order, whatever the merge
\* kept of it, with provenance 'new', score 0, cursor 0, no option selected
\* and no result shown, and shows the play screen; the bank is the merge of
\* that batch.
C19_SessionIsReturnedBatch ==
  [][(manual.pc = "await" /\ manual'.pc = "idle" /\ view' = "play") =>
       /\ session'.items = manual'.returned
       /\ session'.type = "new"
       /\ session'.score = 0
       /\ session'.currentQIndex = 0
       /\ session'.selectedOption = NoOption
       /\ ~session'.showResult
       /\ dbItems' = ManualMerge(dbItems, manual.level, manual'.returned)]_vars

\* a manual generation has just returned a batch of two items of which the
\* merge dropped the first as a duplicate: it is in the session and the bank
\* holds no item equal to it
C19_Witness ==
  /\ view = "play"
  /\ manual.pc = "idle"
  /\ Len(manual.returned) = 2
  /\ session.items = manual.returned
  /\ session.type = "new"
  /\ isDuplicate(session.items[1].question, dbItems)
  /\ \A i \in 1..Len(dbItems) : dbItems[i] # session.items[1]


\* C20: a step that starts a review shows the play screen with a session of
\* exactly min(DEFAULT_SESSION_COUNT, n) items, n > 0 being the number of
\* bank items of the reviewed level: the items are bank entries at pairwise
\* different positions, all of that level, the provenance is 'review', score
\* and cursor are 0, no option is selected and no result shown.  The alert
\* 'nothing to review' is raised only for a level without items, and the step
\* that raises it changes neither the session (score and cursor included)
\* nor the view.
C20_ReviewSession ==
  /\ [][(view = "home" /\ view' = "play") =>
          \E level \in QuizLevel :
            LET n == CountOf(dbItems, level)
                m == Len(session'.items)
            IN  /\ n > 0
                /\ m = MinOf(DEFAULT_SESSION_COUNT, n)
                /\ \E f \in [1..m -> 1..Len(dbItems)] :
                     /\ \A j, k \in 1..m : j # k => f[j] # f[k]
                     /\ \A k \in 1..m :
                          /\ dbItems[f[k]] = session'.items[k]
                          /\ dbItems[f[k]].level = level
                /\ session'.type = "review"
                /\ session'.score = 0
                /\ session'.currentQIndex = 0
                /\ session'.selectedOption = NoOption
                /\ ~session'.showResult
                /\ dbItems' = dbItems]_vars
  /\ [][(alert # "nothing to review" /\ alert' = "nothing to review") =>
          /\ view = "home"
          /\ \E level \in QuizLevel : CountOf(dbItems, level) = 0
          /\ session' = session
          /\ view' = view
          /\ dbItems' = dbItems]_vars

\* a review of a level with more than DEFAULT_SESSION_COUNT items has made a
\* session, and a later review of a level without items has been refused
C20_Witness ==
  /\ alert = "nothing to review"
  /\ view = "home"
  /\ session.type = "review"
  /\ Len(session.items) = DEFAULT_SESSION_COUNT
  /\ CountOf(dbItems, session.items[1].level) > DEFAULT_SESSION_COUNT
  /\ session.score > 0


\* C21: when a bank of items whose text fields hold neither a comma, a quote
\* nor a line end is exported, parsing the exported text gives as many items
\* as the bank has and, item by item, the same level, question, options,
\* correct_idx, explanations, wiki_link and is_japan.  toCSV wraps six of the
\* text fields in quotes that parseCSV does not remove, so this fails.
C21_ParseOfExportIsBank ==
  [][LET Plain(t) == \A k \in 1..Len(t) : t[k] \notin {",", "\"", "\n", "\r"}
         WellFormed(item) ==
           /\ Plain(item.level) /\ Plain(item.question)
           /\ Plain(item.option1) /\ Plain(item.option2)
           /\ Plain(item.option3) /\ Plain(item.option4)
           /\ Plain(item.explanation) /\ Plain(item.advanced_explanation)
           /\ Plain(item.wiki_link)
           /\ item.correct_idx \in OptionIndexes
     IN  (download' # download /\ \A k \in 1..Len(dbItems) : WellFormed(dbItems[k]))
           => parseCSV(download') = dbItems]_vars


\* C22: when a file is read, parseCSV yields exactly one item for each line
\* with at least 11 columns (at least 10 commas), the header line (a first
\* line that starts with "level,question") apart, in the order of the file
\* and with the line's first two columns as level and question; lines with
\* fewer columns yield nothing.
C22_OneItemPerFullRow ==
  [][(reader.pc = "idle" /\ reader'.pc = "reading" /\ reader'.text # <<>>) =>
       LET lines == Split(Trim(reader'.text), "\n")
           Commas(l) == Cardinality({k \in 1..Len(l) : l[k] = ","})
           data == IF startsWith(lines[1], HeaderPrefix) THEN Tail(lines) ELSE lines
           full == SelectSeq(data, LAMBDA l : Commas(l) >= 10)
           parsed == reader'.parsed
           FirstTwo(l) == SubSeq(Split(l, ","), 1, 2)
       IN  [k \in 1..Len(parsed) |-> <<parsed[k].level, parsed[k].question>>]
             = [k \in 1..Len(full) |-> FirstTwo(full[k])]]_vars

\* the file with a header, one row of 9 columns and two rows of 11 is being
\* read and has given exactly 2 items
C22_Witness ==
  /\ reader.pc = "reading"
  /\ startsWith(reader.text, CSV_HEADER)
  /\ LET lines == Split(reader.text, "\n")
     IN  /\ Len(lines) = 4
         /\ Len(Split(lines[2], ",")) = 9
         /\ Len(Split(lines[3], ",")) = 11
         /\ Len(Split(lines[4], ",")) = 11
  /\ Len(reader.parsed) = 2
  /\ reader.parsed[1].question = <<"q">>
  /\ reader.parsed[2].question = <<"r">>


\* C23: whatever the random choices, the sequence shuffleArray returns to a
\* review has the length of the level's items it was given and holds every
\* element as often as they do; the given items and the bank they were
\* filtered from are unchanged by the step.
C23_ShuffleIsPermutation ==
  [][(view = "home" /\ view' = "play") =>
       \E level \in QuizLevel :
         LET given == LevelItems(dbItems, level)
             out == session'.shuffled
             Times(x, s) == Cardinality({k \in 1..Len(s) : s[k] = x})
         IN  /\ given # <<>>
             /\ Len(out) = Len(given)
             /\ \A k \in 1..Len(given) :
                  Times(given[k], out) = Times(given[k], given)
             /\ LevelItems(dbItems', level) = given
             /\ dbItems' = dbItems]_vars

\* a review of three items got them back in another order
C23_Witness ==
  /\ view = "play"
  /\ Len(session.shuffled) = 3
  /\ session.shuffled # LevelItems(dbItems, "L3")
  /\ session.shuffled[1] = LevelItems(dbItems, "L3")[3]
  /\ session.shuffled[3] = LevelItems(dbItems, "L3")[2]


\* C24: once the cancellation flag is set, no request is sent to the
\* generation service for the run: no step taken with the flag set raises
\* the number of requests of the outstanding call.  The client's retry loop
\* never looks at the flag, so a retry of a call that was outstanding when
\* the flag was set breaks this.
C24_NoRequestAfterCancel ==
  [][stopAutoRef => auto'.client.sent <= auto.client.sent]_vars


\* the pauses of the Auto-Fill loop
Pauses == {"rest", "rateWait", "overloadWait", "otherWait"}

\* C25: in every pause the flag is checked at each second: once the flag is
\* set during a pause, the sleep the loop is in lasts at most one second and
\* the loop's next step leaves the pause.  The overload pause and the
\* other-error pause are one sleep of 10 and of 5 seconds.
C25_EveryPauseChecksEachSecond ==
  [][stopAutoRef /\ auto.pc \in Pauses
       => /\ auto.sleepMs <= TICK_MS
          /\ auto' # auto => auto'.pc \notin Pauses]_vars


\* the length the claim gives each error pause
C26_PauseLength(kind) ==
  CASE kind = "rateWait" -> RATE_LIMIT_WAIT_SEC * TICK_MS
    [] kind = "overloadWait" -> OVERLOAD_WAIT_MS
    [] kind = "otherWait" -> OTHER_ERROR_WAIT_MS

\* a step of an uncancelled run that sends the first request of the batch
\* call after a failed one
C26_NextRequestAfterFailure ==
  /\ auto.errorPause # "none"
  /\ ~stopAutoRef
  /\ auto.pc \in Pauses
  /\ auto'.pc = "call"

C27_ResultAfterCancelDiscarded ==
  [][auto.pc = "call" /\ stopAutoRef /\ auto'.pc # "call"
       => /\ dbItems' = dbItems
          /\ stored' = stored
          /\ auto'.localDb = auto.localDb
          /\ auto'.currentCount = auto.currentCount
          /\ autoProgress'.current = autoProgress.current]_vars

\* a stopped run has dropped a batch with an item the bank does not hold
C27_Witness ==
  /\ auto.pc = "alert"
  /\ alert = "stopped by user"
  /\ \E k \in DOMAIN auto.newItems : ~isDuplicate(auto.newItems[k].question, dbItems)


\* a call of an uncancelled run returns a batch, every item of which
\* duplicates an item of the bank
C28_DuplicateBatchReturns ==
  /\ auto.pc = "call"
  /\ auto'.pc \in {"rest", "alert"}
  /\ ~stopAutoRef
  /\ auto'.newItems # <<>>
  /\ \A k \in DOMAIN auto'.newItems : isDuplicate(auto'.newItems[k].question, dbItems)

\* C28: a batch of duplicates leaves the count, the bank and the persisted
\* store unchanged and the loop goes on, through its rest, to the next batch
\* attempt; a run whose count is below its target has ended only if the
\* cancellation flag was set, so with a service that returns only duplicates
\* the run ends only by cancellation.
C28_DuplicateBatchChangesNothing ==
  /\ [][C28_DuplicateBatchReturns
          => /\ dbItems' = dbItems
             /\ stored' = stored
             /\ auto'.localDb = auto.localDb
             /\ auto'.currentCount = auto.currentCount
             /\ autoProgress'.current = autoProgress.current
             /\ auto'.pc = "rest"]_vars
  /\ [][auto.pc = "rest" /\ auto'.pc \notin {"rest", "call"} => stopAutoRef]_vars
  /\ [](auto.pc = "alert" /\ auto.currentCount < auto.target => stopAutoRef)

\* the loop rests after a batch of which the filter kept nothing
C28_Witness ==
  /\ auto.pc = "rest"
  /\ auto.newItems # <<>>
  /\ auto.uniqueItems = <<>>
  /\ auto.callsInRun = MaxCallsTracked
  /\ ~stopAutoRef


\* errors that are neither rate-limit nor overload: the three the client
\* throws itself and an unclassified one of the service
C29_NotRetryable == {ENoContent, ENotJSON, ENotArray, ESafety}

\* C29: when an attempt of the client fails with an error that is neither
\* rate-limit nor overload, on whichever attempt, the call throws that error
\* at once: it is over and has sent no further request.
C29_OtherErrorsThrownAtOnce ==
  [][(/\ auto.pc = "call"
      /\ auto.client.phase = "request"
      /\ auto' # auto
      /\ auto'.lastFailure \in C29_NotRetryable)
       => /\ auto'.pc # "call"
          /\ auto'.client.phase = "none"
          /\ auto'.client.sent <= auto.client.sent
          /\ auto'.thrown = auto'.lastFailure]_vars

\* a call has thrown the JSON error of its third attempt
C29_Witness ==
  /\ auto.pc = "otherWait"
  /\ auto.client.attempt = 2
  /\ auto.client.sent = 3
  /\ auto.lastFailure = ENotJSON
  /\ auto.thrown = ENotJSON


\* a call of an uncancelled run returns, the filter keeps some of its items,
\* and the merged bank does not fit into localStorage: setItem throws
C30_WriteFailsInMerge ==
  /\ auto.pc = "call"
  /\ auto'.pc # "call"
  /\ auto'.uniqueItems # <<>>
  /\ Len(auto.localDb) + Len(auto'.uniqueItems) > quota

\* C30: when the write fails during an Auto-Fill merge, the bank holds the
\* merged survivors, the count advances by those of the run's level, the store
\* keeps what it held, and the loop goes on to its rest or, with the target
\* reached, to its normal end: nothing is rolled back and no error leaves the
\* loop.
C30_WriteFailureKeepsMerge ==
  [][C30_WriteFailsInMerge
       => /\ dbItems' = auto.localDb \o auto'.uniqueItems
          /\ auto'.localDb = dbItems'
          /\ auto'.currentCount =
               auto.currentCount + CountOf(auto'.uniqueItems, auto.level)
          /\ autoProgress'.current = auto'.currentCount
          /\ stored' = stored
          /\ auto'.thrown = NoError
          /\ IF auto'.currentCount < auto.target
               THEN auto'.pc = "rest" /\ alert' = "none"
               ELSE auto'.pc = "alert" /\ alert' = "target reached"]_vars

\* the loop rests after a merge whose write failed
C30_Witness ==
  /\ auto.pc = "rest"
  /\ auto.uniqueItems # <<>>
  /\ dbItems = auto.localDb
  /\ Len(dbItems) > quota
  /\ stored # dbItems
  /\ ~stopAutoRef


\* the bank, its store, the session but for isConfirmingExit (which the
\* trigger clears) and the view are as they were
C31_Frame ==
  /\ dbItems' = dbItems
  /\ stored' = stored
  /\ [session' EXCEPT !.isConfirmingExit = session.isConfirmingExit] = session
  /\ view' = view

\* C31: a manual generation that fails reports its error and leaves the
\* bank, the session (items, score, cursor) and the view as they were before
\* the trigger: the trigger, every step of the client (which leave the view
\* to the user), the catch block that shows the alert and the closing of the
\* alert change none of them, and the alert carries a message.
C31_FailedGenerationChangesNothing ==
  [][/\ (manual.pc = "idle" /\ manual'.pc = "await") => C31_Frame
     /\ (manual.pc = "await" /\ manual'.pc = "await")
          => /\ dbItems' = dbItems
             /\ stored' = stored
             /\ session' = session
     /\ (manual.pc = "await" /\ manual'.pc = "alert")
          => /\ C31_Frame
             /\ alert = "none"
             /\ alert' # "none"
             /\ manual'.thrown # NoError
     /\ manual.pc = "alert"
          => /\ C31_Frame
             /\ alert # "none"
             /\ manual' # manual => manual'.pc = "idle" /\ alert' = "none"]_vars

\* an error is on the screen while the bank and the session hold the items of
\* an earlier generation
C31_Witness ==
  /\ manual.pc = "alert"
  /\ alert # "none"
  /\ dbItems # <<>>
  /\ session.items # <<>>
  /\ session.items = manual.returned


\* the controller is idle: no run is active
C32_Idle == auto.pc \in {"idle", "reached"}

\* C32: the controller goes idle -> running -> (stopping) -> idle.  A run is
\* left only through the alert after its loop, and closing that alert leaves
\* the controller idle with the in-progress flag false, the snapshot cleared
\* and the cancellation flag cleared; whenever no handler is active all three
\* are clear, so a trigger is accepted; and a run that starts has its
\* cancellation flag clear and is not stopping.
C32_RunEndsIdleAndClear ==
  /\ []((C32_Idle /\ manual.pc = "idle")
          => /\ ~isGenerating
             /\ loadingLevel = "null"
             /\ autoProgress = NoProgress
             /\ ~stopAutoRef
             /\ apiKey # "" => CanGenerate)
  /\ [][(~C32_Idle /\ auto'.pc # auto.pc /\ auto.pc # "alert") => auto'.pc # "idle"]_vars
  /\ [][(auto.pc = "alert" /\ auto'.pc # "alert")
          => /\ auto' = IdleAuto
             /\ alert' = "none"
             /\ ~isGenerating'
             /\ autoProgress' = NoProgress
             /\ ~stopAutoRef']_vars
  /\ [][(C32_Idle /\ ~C32_Idle')
          => /\ auto'.pc = "call"
             /\ isGenerating'
             /\ ~stopAutoRef'
             /\ autoProgress' # NoProgress
             /\ ~autoProgress'.isStopping]_vars

\* the first call of a run is outstanding while the bank holds items that
\* only an earlier run can have merged
C32_Witness ==
  /\ auto.pc = "call"
  /\ auto.callsInRun = 1
  /\ isGenerating
  /\ ~stopAutoRef
  /\ dbItems # <<>>
  /\ manual.returned = <<>>


\* C33: no update is lost when an import or a reset interleaves with a run:
\* the merge of the run keeps what the bank holds at that moment and adds
\* the surviving items of its batch, in memory and in the store.  The loop
\* merges into the copy of the bank it took when the run started and writes
\* that copy over the bank, so an item imported since is dropped and a bank
\* reset since comes back.
C33_MergeKeepsCurrentBank ==
  [][(auto.pc = "call" /\ auto'.pc # "call" /\ auto'.uniqueItems # <<>>)
       => /\ dbItems' = dbItems \o auto'.uniqueItems
          /\ stored' = dbItems']_vars


\* C34: whenever the play view is active the session is non-empty and the
\* cursor indexes one of its questions.  A manual generation whose call
\* returns an empty batch starts a session without items and opens the play
\* view all the same.
C34_PlayViewHasQuestion ==
  view = "play"
    => /\ session.items # <<>>
       /\ 0 <= session.currentQIndex
       /\ session.currentQIndex < Len(session.items)


\* C35: the items a merge for a level adds to the bank are stored and
\* counted under that level: an Auto-Fill merge with k surviving items
\* raises the count of the run's level by k.  The items keep the level the
\* service wrote into them, and the count is taken by that field.
C35_MergedItemsCountForLevel ==
  [][(auto.pc = "call" /\ auto'.pc # "call" /\ auto'.uniqueItems # <<>>)
       => /\ \A k \in DOMAIN auto'.uniqueItems :
               \E j \in DOMAIN dbItems' :
                 /\ dbItems'[j].question = auto'.uniqueItems[k].question
                 /\ dbItems'[j].level = auto.level
          /\ auto'.currentCount = auto.currentCount + Len(auto'.uniqueItems)
          /\ CountOf(dbItems', auto.level)
               = CountOf(dbItems, auto.level) + Len(auto'.uniqueItems)]_vars


\* C36: Auto-Fill never takes a level past its target: in every state of a
\* run the count is at most the target, and a run that reports "target
\* reached" ends with the count equal to the target.  The loop asks for no
\* more items than are missing but merges every survivor of what the
\* service returns, so a batch larger than requested overshoots.
C36_NeverPastTarget ==
  /\ auto.pc \notin {"idle", "reached"}
       => /\ auto.currentCount <= auto.target
          /\ CountOf(dbItems, auto.level) <= auto.target
  /\ (auto.pc = "alert" /\ alert = "target reached")
       => auto.currentCount = auto.target

=============================================================================
